---- MODULE Spec2Model ----
(***************************************************************************)
(* Model of the stopkran daemon (src/stopkran_daemon.py): the pending-     *)
(* request registry, the per-connection handler handle_hook_connection,    *)
(* and the Telegram update handlers (cmd_start, cmd_status,                *)
(* callback_handler, text_handler) with resolve_request.                   *)
(*                                                                         *)
(* Scheduling.  The daemon is one asyncio event loop.  A coroutine runs    *)
(* without interruption from one await that really suspends to the next,   *)
(* so each action below is one such segment.  Telegram updates are         *)
(* processed one at a time (Application.builder().build() leaves           *)
(* concurrent_updates off), and every update that reaches resolve_request  *)
(* ends in a network await.  event.set() puts the waiting connection       *)
(* handler on the loop's ready queue, so that handler resumes before any   *)
(* network or timer completion is processed: while a handler is ready      *)
(* (Ready below) only Wake is enabled.                                     *)
(***************************************************************************)
EXTENDS Integers, Sequences, FiniteSets, TLC

\* ---------------------------------------------------------------- bounds
MaxConn == 2
MaxUpdates == 2
MaxOpts == 2

\* Telegram identities: any of them may send updates
Users == {1, 2}
NoId == 0
NoRid == 0
NoConn == 0
\* entry["questions"] falsy (None or []) is NoQuestions; otherwise the number
\* of options of questions[0]
NoQuestions == -1
\* option labels of questions[0]: option i (0-based) has label Labels[i+1]
Labels == <<"Yes", "No", "Maybe">>
NoResponse == [decision |-> "none", answer |-> "None"]
\* seconds: DEFAULT_TIMEOUT of the daemon, RECV_TIMEOUT of the hook
DEFAULT_TIMEOUT == 300
RECV_TIMEOUT == 310
\* milliseconds: the timeout of the hook entry stopkran_setup.py writes to
\* the host's settings
hook_timeout == 330000

VARIABLES
    chat_id,    \* cfg["chat_id"]: NoId (None) or the registered owner
    pending,    \* the registry dict, in insertion (iteration) order
    event,      \* event[c]: the asyncio.Event created by connection c is set
    hc,         \* hc[c]: state of the handler of connection c
    nupd,       \* number of Telegram updates processed so far
    last,       \* the reply sent to the Telegram user by the step that led
                \* here, NoReport when that step was no update
    accepted,   \* accepted[c]: the attempts reported as accepted on the
                \* entry created by connection c, in order
    nseq,       \* number of registry entries created so far
    timeout,    \* the auto-deny timeout main reads from the configuration
    hook        \* hook[c]: the stopkran_hook.py process behind connection c,
                \* "none" in every field when the requester is another client

vars == <<chat_id, pending, event, hc, nupd, last, accepted, nseq, timeout,
          hook>>

\* the connections the requesters open
Conns == DOMAIN hc
\* request_id values a requester may send; two connections may reuse one
RequestIds == DOMAIN hc

\* ------------------------------------------------------------ the registry
\* position of request_id in the dict, 0 if absent
Index(p, rid) ==
    IF \E i \in 1..Len(p) : p[i].rid = rid
    THEN CHOOSE i \in 1..Len(p) : p[i].rid = rid
    ELSE 0

Has(p, rid) == Index(p, rid) # 0

\* pending.get(request_id) when present
Get(p, rid) == p[Index(p, rid)]

\* pending[request_id] = entry: a new key goes last, an existing key keeps
\* its place and gets the new value
Put(p, rid, e) ==
    IF Has(p, rid) THEN [p EXCEPT ![Index(p, rid)] = e] ELSE Append(p, e)

\* pending.pop(request_id, None)
Pop(p, rid) ==
    IF Has(p, rid)
    THEN SubSeq(p, 1, Index(p, rid) - 1) \o SubSeq(p, Index(p, rid) + 1, Len(p))
    ELSE p

\* first request_id in iteration order whose decision is None
get_oldest_pending_request_id(p) ==
    IF \E i \in 1..Len(p) : p[i].decision = "None"
    THEN p[CHOOSE i \in 1..Len(p) :
               /\ p[i].decision = "None"
               /\ \A j \in 1..(i-1) : p[j].decision # "None"].rid
    ELSE NoRid

\* the entry built at lines 402-410
NewEntry(c, rid, tool, q, s) ==
    [rid |-> rid, conn |-> c, seq |-> s, decision |-> "None",
     tg_message_id |-> 0, tool_name |-> tool, questions |-> q,
     answer |-> "None"]

\* ----------------------------------------------------------- the handlers
NoReport ==
    [kind |-> "none", user |-> NoId, rid |-> NoRid, conn |-> NoConn,
     action |-> "none", before |-> "absent", outcome |-> "none",
     signalled |-> FALSE, n |-> 0, answer |-> "None", idx |-> -1]

HandlerInit ==
    [pc |-> "idle", rid |-> NoRid, chat_id |-> NoId,
     response |-> NoResponse, exit |-> "none", fin |-> "none"]

\* a step of a connection handler sends nothing to the Telegram user
Silent == last' = NoReport

\* a handler whose event was set while it waits is on the ready queue
Ready == {c \in Conns : hc[c].pc = "waiting" /\ event[c]}

NoReady == Ready = {}

\* a hook process that has not started
HookInit ==
    [pc |-> "none", got |-> "none", behavior |-> "none",
     updatedInput |-> "None"]

Init ==
    /\ chat_id \in {NoId, 1}
    /\ pending = <<>>
    /\ event = [c \in 1..MaxConn |-> FALSE]
    /\ hc = [c \in 1..MaxConn |-> HandlerInit]
    /\ nupd = 0
    /\ last = NoReport
    /\ accepted = [c \in 1..MaxConn |-> <<>>]
    /\ nseq = 0
    /\ timeout = DEFAULT_TIMEOUT
    /\ hook = [c \in 1..MaxConn |-> HookInit]

\* the listener accepts a connection and starts its handler (lines 469-470)
Accept(c) ==
    /\ NoReady
    /\ hc[c].pc = "idle"
    /\ \A d \in Conns : d < c => hc[d].pc # "idle"
    /\ hc' = [hc EXCEPT ![c].pc = "reading"]
    /\ Silent /\ UNCHANGED <<chat_id, pending, event, nupd, accepted, nseq,
                             timeout, hook>>

\* a finally block that leaves the connection open
CloseLeavesOpen(h, why, resp) ==
    [h EXCEPT !.exit = why, !.response = resp]

\* the handler ends: writer.close() in the finally block
Close(h, why, resp) ==
    [h EXCEPT !.pc = "done", !.exit = why, !.response = resp]

\* an except clause that answers deny before the connection is closed
OnExceptionDeny == [decision |-> "deny", answer |-> "None"]

\* what the except clause of lines 453-454 writes to the connection: it logs
\* the error and writes nothing
OnException == NoResponse

ReadErrors == {"empty", "read_timeout", "malformed"}

\* readline returns nothing (line 354), or it times out or the record does
\* not parse or has no request_id (lines 352-357, caught at line 453)
ReadFail(c, why) ==
    /\ NoReady
    /\ hc[c].pc = "reading"
    /\ why \in ReadErrors
    /\ hc' = [hc EXCEPT ![c] =
                Close(@, "no_request",
                      IF why = "empty" THEN NoResponse ELSE OnException)]
    /\ Silent /\ UNCHANGED <<chat_id, pending, event, nupd, accepted, nseq,
                             timeout, hook>>

\* the check of line 363 left out: every request is published
NoOwnerNever(cid) == FALSE

\* chat_id is None (line 363)
NoOwner(cid) == cid = NoId

\* a request record arrives (lines 356-410)
ReadRequest(c, rid, tool, q) ==
    /\ NoReady
    /\ hc[c].pc = "reading"
    /\ IF NoOwner(chat_id)
       THEN /\ hc' = [hc EXCEPT ![c] =
                        Close([@ EXCEPT !.rid = rid, !.chat_id = chat_id],
                              "no_owner",
                              [decision |-> "deny", answer |-> "None"])]
            /\ UNCHANGED <<pending, nseq>>
       ELSE /\ pending' = Put(pending, rid, NewEntry(c, rid, tool, q, nseq + 1))
            /\ nseq' = nseq + 1
            /\ hc' = [hc EXCEPT ![c].pc = "publishing", ![c].rid = rid,
                                ![c].chat_id = chat_id]
    /\ Silent /\ UNCHANGED <<chat_id, event, nupd, accepted, timeout, hook>>

\* send_message returns (line 417), then the handler waits on its event
PublishOk(c) ==
    /\ NoReady
    /\ hc[c].pc = "publishing"
    /\ IF Has(pending, hc[c].rid)
       THEN /\ pending' = [pending EXCEPT
                             ![Index(pending, hc[c].rid)].tg_message_id = c]
            /\ hc' = [hc EXCEPT ![c].pc = "waiting"]
       ELSE \* pending[request_id] raises KeyError, caught at line 453
            /\ hc' = [hc EXCEPT ![c] = Close(@, "keyerror", OnException)]
            /\ UNCHANGED pending
    /\ Silent /\ UNCHANGED <<chat_id, event, nupd, accepted, nseq,
                             timeout, hook>>

\* send_message raises: lines 453-460 log the error and close the connection
PublishFail(c) ==
    /\ NoReady
    /\ hc[c].pc = "publishing"
    /\ hc' = [hc EXCEPT ![c] = Close(@, "publish_failed", OnException)]
    /\ Silent /\ UNCHANGED <<chat_id, pending, event, nupd, accepted, nseq,
                             timeout, hook>>

\* wait_for raises TimeoutError (lines 423-425); the handler then awaits the
\* two edit calls of lines 427-434
Timeout(c) ==
    /\ NoReady
    /\ hc[c].pc = "waiting"
    /\ hc' = [hc EXCEPT ![c].pc = "finalizing"]
    /\ Silent /\ UNCHANGED <<chat_id, pending, event, nupd, accepted, nseq,
                             timeout, hook>>

\* lines 438-450: snapshot the entry under request_id, pop it, write the
\* response with the decision the handler holds, close
Respond(c, decision, why, fin) ==
    LET rid == hc[c].rid
        answer == IF Has(pending, rid) THEN Get(pending, rid).answer ELSE "None"
    IN  /\ pending' = Pop(pending, rid)
        /\ hc' = [hc EXCEPT ![c] =
                    [Close(@, why, [decision |-> decision, answer |-> answer])
                       EXCEPT !.fin = fin]]

\* a timeout that lets the request through
TimeoutAllows == "allow"

\* decision = "deny" on TimeoutError (line 424)
TimeoutDecision == "deny"

\* the edit calls return or raise (lines 426-436)
FinalizeDone(c, ok) ==
    /\ NoReady
    /\ hc[c].pc = "finalizing"
    /\ Respond(c, TimeoutDecision, "timed_out", IF ok THEN "ok" ELSE "failed")
    /\ Silent /\ UNCHANGED <<chat_id, event, nupd, accepted, nseq,
                             timeout, hook>>

\* pending[request_id]["decision"] or "deny" (line 422)
DecisionOrDeny(e) == IF e.decision = "None" THEN "deny" ELSE e.decision

\* event.wait() returns: line 422, then lines 438-460
Wake(c) ==
    /\ c \in Ready
    /\ IF Has(pending, hc[c].rid)
       THEN Respond(c, DecisionOrDeny(Get(pending, hc[c].rid)), "resolved",
                    "none")
       ELSE \* KeyError at line 422, caught at line 453
            /\ hc' = [hc EXCEPT ![c] = Close(@, "keyerror", OnException)]
            /\ UNCHANGED pending
    /\ Silent /\ UNCHANGED <<chat_id, event, nupd, accepted, nseq,
                             timeout, hook>>

\* ------------------------------------------------------- Telegram updates
Report(kind, u, rid, c, action, before, outcome, signalled, n) ==
    [kind |-> kind, user |-> u, rid |-> rid, conn |-> c, action |-> action,
     before |-> before, outcome |-> outcome, signalled |-> signalled, n |-> n,
     answer |-> "None", idx |-> -1]

\* the reply is sent; an accepted attempt is added to its entry's history
Reply(r) ==
    /\ nupd' = nupd + 1
    /\ last' = r
    /\ accepted' = IF r.outcome = "accepted"
                   THEN [accepted EXCEPT ![r.conn] =
                           Append(@, [kind |-> r.kind, action |-> r.action,
                                      answer |-> r.answer])]
                   ELSE accepted

\* an update is taken from the queue; the model stops after MaxUpdates
UpdateReady == NoReady /\ nupd < MaxUpdates

\* a /start that takes the ownership whoever holds it
ClaimAlways(cid, u) == u

\* lines 74-75: cfg["chat_id"] is set only while it is None
Claim(cid, u) == IF cid = NoId THEN u ELSE cid

\* /start (lines 69-85)
cmd_start(u) ==
    /\ UpdateReady
    /\ chat_id' = Claim(chat_id, u)
    /\ Reply(Report("start", u, NoRid, NoConn, "none", "absent",
                    IF chat_id = NoId THEN "registered"
                    ELSE IF chat_id = u THEN "already_owner"
                    ELSE "other_owner", FALSE, 0))
    /\ UNCHANGED <<pending, event, hc, nseq, timeout, hook>>

\* an owner check that lets every sender through
AuthorizedAnyone(u, cid) == TRUE

\* the sender is the registered owner (lines 91, 160, 230)
Authorized(u, cid) == u = cid

\* /status (lines 88-99)
cmd_status(u) ==
    /\ UpdateReady
    /\ Reply(IF ~Authorized(u, chat_id)
             THEN Report("status", u, NoRid, NoConn, "none", "absent",
                         "ignored", FALSE, 0)
             ELSE Report("status", u, NoRid, NoConn, "none", "absent",
                         "count", FALSE, Len(pending)))
    /\ UNCHANGED <<chat_id, pending, event, hc, nseq, timeout, hook>>

\* lines 104-109 on an entry that is present: the decision is stored and the
\* event of that entry is set
Resolved(p, rid, action) == [p EXCEPT ![Index(p, rid)].decision = action]

\* request ids for which send_message has been called: a prompt with
\* buttons naming the id may be in the user's hands
SentRids == {hc[c].rid : c \in {d \in Conns :
                 hc[d].pc \in {"publishing", "waiting", "finalizing"}
                 \/ hc[d].exit \in {"publish_failed", "keyerror", "resolved",
                                    "timed_out"}}}

\* callback data the user can send: "allow:<id>", "deny:<id>",
\* "ans:<id>:<index>"
CallbackData ==
    [action : {"allow", "deny"}, rid : RequestIds, idx : {0}]
    \cup [action : {"ans"}, rid : RequestIds, idx : -1..MaxOpts]

\* options[option_idx]["label"] (lines 196, 246)
OptionLabel(idx) == Labels[idx + 1]

\* a range check that forgets the upper end
IndexBelowRange(idx, n) == idx < 0

\* option_idx < 0 or option_idx >= len(options) (line 192)
IndexOutOfRange(idx, n) == idx < 0 \/ idx >= n

\* button presses (lines 154-224)
callback_handler(u, data) ==
    LET rid == data.rid
        e == Get(pending, rid)
        kind == IF data.action = "ans" THEN "ans" ELSE "button"
        Answered(out, c, before, sig) ==
            Reply(Report(kind, u, rid, c,
                         IF data.action = "ans" THEN "allow" ELSE data.action,
                         before, out, sig, 0))
    IN
    /\ UpdateReady
    /\ rid \in SentRids
    /\ IF ~Authorized(u, chat_id)
       THEN /\ Reply(Report(kind, u, NoRid, NoConn, "none", "absent",
                            "unauthorized", FALSE, 0))
            /\ UNCHANGED <<pending, event>>
       ELSE IF ~Has(pending, rid)
       THEN /\ Answered("already_handled", NoConn, "absent", FALSE)
            /\ UNCHANGED <<pending, event>>
       ELSE IF data.action = "ans"
       THEN IF \/ e.questions = NoQuestions
               \/ IndexOutOfRange(data.idx, e.questions)
            THEN /\ Reply([Report("ans", u, rid, e.conn, "allow", e.decision,
                                   "invalid", FALSE, 0)
                              EXCEPT !.idx = data.idx])
                 /\ UNCHANGED <<pending, event>>
            ELSE /\ pending' = Resolved([pending EXCEPT
                                   ![Index(pending, rid)].answer =
                                       OptionLabel(data.idx)], rid, "allow")
                 /\ event' = [event EXCEPT ![e.conn] = TRUE]
                 /\ Reply([Report("ans", u, rid, e.conn, "allow", e.decision,
                                   "accepted", TRUE, 0)
                              EXCEPT !.answer = OptionLabel(data.idx),
                                     !.idx = data.idx])
       ELSE /\ pending' = Resolved(pending, rid, data.action)
            /\ event' = [event EXCEPT ![e.conn] = TRUE]
            /\ Answered("accepted", e.conn, e.decision, TRUE)
    /\ UNCHANGED <<chat_id, hc, nseq, timeout, hook>>

\* text messages, after strip().lower()
Texts == {"yes", "no", "hm", "0", "1", "2", "3"}
ALLOW_PATTERNS == {"yes"}
DENY_PATTERNS == {"no"}
\* text.isdigit() and int(text)
DigitValue == [t \in {"0", "1", "2", "3"} |->
                 CASE t = "0" -> 0 [] t = "1" -> 1 [] t = "2" -> 2 [] t = "3" -> 3]
isdigit(t) == t \in DOMAIN DigitValue

\* the digit branch of lines 238-254 is taken
DigitApplies(p, rid, t) ==
    /\ isdigit(t)
    /\ rid # NoRid
    /\ Get(p, rid).tool_name = "AskUserQuestion"
    /\ Get(p, rid).questions # NoQuestions
    /\ 0 <= DigitValue[t] - 1
    /\ DigitValue[t] - 1 < Get(p, rid).questions

\* quick replies (lines 227-272)
text_handler(u, t) ==
    LET rid == get_oldest_pending_request_id(pending)
        e == Get(pending, rid)
        action == IF t \in ALLOW_PATTERNS THEN "allow" ELSE "deny"
        kind == IF isdigit(t) THEN "digit" ELSE "text"
        \* option_idx of line 241, kept in the reply record of a digit
        idx == IF isdigit(t) THEN DigitValue[t] - 1 ELSE -1
    IN
    /\ UpdateReady
    /\ IF ~Authorized(u, chat_id)
       THEN /\ Reply(Report(kind, u, NoRid, NoConn, "none", "absent",
                            "ignored", FALSE, 0))
            /\ UNCHANGED <<pending, event>>
       ELSE IF DigitApplies(pending, rid, t)
       THEN /\ pending' = Resolved([pending EXCEPT
                              ![Index(pending, rid)].answer =
                                  OptionLabel(DigitValue[t] - 1)], rid, "allow")
            /\ event' = [event EXCEPT ![e.conn] = TRUE]
            /\ Reply([Report(kind, u, rid, e.conn, "allow", e.decision,
                             "accepted", TRUE, 0)
                        EXCEPT !.answer = OptionLabel(DigitValue[t] - 1),
                               !.idx = idx])
       ELSE IF t \notin ALLOW_PATTERNS \cup DENY_PATTERNS
       THEN /\ Reply([Report(kind, u, NoRid, NoConn, "none", "absent",
                             "ignored", FALSE, 0) EXCEPT !.idx = idx])
            /\ UNCHANGED <<pending, event>>
       ELSE IF rid = NoRid
       THEN /\ Reply(Report(kind, u, NoRid, NoConn, action, "absent",
                            "no_pending", FALSE, 0))
            /\ UNCHANGED <<pending, event>>
       ELSE /\ pending' = Resolved(pending, rid, action)
            /\ event' = [event EXCEPT ![e.conn] = TRUE]
            /\ Reply(Report(kind, u, rid, e.conn, action, e.decision,
                            "accepted", TRUE, 0))
    /\ UNCHANGED <<chat_id, hc, nseq, timeout, hook>>

\* what a request may carry: tool_name and, for AskUserQuestion, either no
\* questions or a first question with MaxOpts options (line 373-377: the
\* questions are kept for AskUserQuestion only)
Tools == {"Bash", "AskUserQuestion"}
QuestionsOf(tool) ==
    IF tool = "AskUserQuestion" THEN {NoQuestions, MaxOpts}
    ELSE {NoQuestions}

Next ==
    \/ \E c \in Conns : Accept(c)
    \/ \E c \in Conns, why \in ReadErrors : ReadFail(c, why)
    \/ \E c \in Conns, rid \in RequestIds, tool \in Tools :
          \E q \in QuestionsOf(tool) : ReadRequest(c, rid, tool, q)
    \/ \E c \in Conns : PublishOk(c)
    \/ \E c \in Conns : PublishFail(c)
    \/ \E c \in Conns : Timeout(c)
    \/ \E c \in Conns, ok \in BOOLEAN : FinalizeDone(c, ok)
    \/ \E c \in Conns : Wake(c)
    \/ \E u \in Users : cmd_start(u)
    \/ \E u \in Users : cmd_status(u)
    \/ \E u \in Users, data \in CallbackData : callback_handler(u, data)
    \/ \E u \in Users, t \in Texts : text_handler(u, t)

Spec == Init /\ [][Next]_vars

\* the network calls of lines 427-434 return or raise in bounded time, and
\* the event loop runs every task that is ready
FairSpec ==
    /\ Spec
    /\ \A c \in 1..MaxConn : WF_vars(\E ok \in BOOLEAN : FinalizeDone(c, ok))
    /\ \A c \in 1..MaxConn : WF_vars(Wake(c))

\* a step of the handler of connection c after it was accepted
HandlerStep(c) ==
    \/ \E why \in ReadErrors : ReadFail(c, why)
    \/ \E rid \in RequestIds, tool \in Tools :
          \E q \in QuestionsOf(tool) : ReadRequest(c, rid, tool, q)
    \/ PublishOk(c) \/ PublishFail(c)
    \/ Timeout(c)
    \/ \E ok \in BOOLEAN : FinalizeDone(c, ok)
    \/ Wake(c)

\* every await of a handler ends: readline returns or its 10 s timeout
\* fires (line 352), send_message returns or raises (line 412), wait_for
\* returns or its timeout fires (line 421), the edit calls return or raise
LiveSpec == Spec /\ \A c \in 1..MaxConn : WF_vars(HandlerStep(c))

\* three requesters, binary requests, a registered owner who sends quick
\* replies
InitThree ==
    /\ chat_id = 1
    /\ pending = <<>>
    /\ event = [c \in 1..(MaxConn + 1) |-> FALSE]
    /\ hc = [c \in 1..(MaxConn + 1) |-> HandlerInit]
    /\ nupd = 0
    /\ last = NoReport
    /\ accepted = [c \in 1..(MaxConn + 1) |-> <<>>]
    /\ nseq = 0
    /\ timeout = DEFAULT_TIMEOUT
    /\ hook = [c \in 1..(MaxConn + 1) |-> HookInit]

NextThree ==
    \/ \E c \in Conns : Accept(c)
    \/ \E c \in Conns, rid \in RequestIds :
          ReadRequest(c, rid, "Bash", NoQuestions)
    \/ \E c \in Conns : PublishOk(c)
    \/ \E c \in Conns : Timeout(c)
    \/ \E c \in Conns : FinalizeDone(c, TRUE)
    \/ \E c \in Conns : Wake(c)
    \/ \E t \in ALLOW_PATTERNS \cup DENY_PATTERNS : text_handler(chat_id, t)

SpecThree == InitThree /\ [][NextThree]_vars

\* three requesters of any kind, a registered owner who sends digits
Digits == {t \in Texts : isdigit(t)}

NextDigits ==
    \/ \E c \in Conns : Accept(c)
    \/ \E c \in Conns, rid \in RequestIds, tool \in Tools :
          \E q \in QuestionsOf(tool) : ReadRequest(c, rid, tool, q)
    \/ \E c \in Conns : PublishOk(c)
    \/ \E c \in Conns : Wake(c)
    \/ \E t \in Digits : text_handler(chat_id, t)

SpecDigits == InitThree /\ [][NextDigits]_vars

\* ------------------------------------------------- the requester-side hook
\* (src/stopkran_hook.py)
\* What the hook holds when its connect / send / recv block ends.  kind:
\*   "unreachable"  connect raised (no socket file, nobody listening)
\*   "timeout"      recv raised socket.timeout after RECV_TIMEOUT
\*   "empty"        the peer closed the connection without data
\*   "garbage"      bytes that are no JSON text
\*   "not_utf8"     bytes that do not decode as UTF-8
\*   "nonobject"    a JSON text that is no object (a list, a number)
\*   "object"       a JSON object; decision is the value under "decision"
\*                  ("missing" when the key is absent), updatedInput the
\*                  value under "updatedInput" ("None" when absent)
Data(kind, decision, updatedInput) ==
    [kind |-> kind, decision |-> decision, updatedInput |-> updatedInput]

\* json.dumps(resp_data) of lines 444-447 read back by json.loads of hook
\* line 63: the key updatedInput is there only when an answer is; when the
\* handler wrote nothing the hook reads no bytes
Encode(resp) ==
    IF resp = NoResponse THEN Data("empty", "missing", "None")
    ELSE Data("object", resp.decision, resp.answer)

\* what a process other than this daemon may send on the socket
ForeignData ==
    {Data(k, "missing", "None") :
        k \in {"empty", "garbage", "not_utf8", "nonobject"}}
    \cup {Data("object", d, a) :
            d \in {"missing", "allow", "deny", "maybe"}, a \in {"None", "Yes"}}

\* an except clause that answers deny for the host
OnHookErrorDeny == "deny"

\* hook lines 68-76: sys.exit(0), nothing is printed
OnHookError == "none"

\* hook lines 45-100 from the end of the socket exchange on
hook_main(data) ==
    IF data.kind \in {"unreachable", "timeout", "empty", "garbage"}
    THEN \* FileNotFoundError, ConnectionRefusedError, socket.timeout,
         \* JSONDecodeError: caught at line 68
         [pc |-> "exit0", got |-> data.kind, behavior |-> OnHookError,
          updatedInput |-> "None"]
    ELSE IF data.kind \in {"not_utf8", "nonobject"}
    THEN \* UnicodeDecodeError at line 63, AttributeError at line 64: not in
         \* the except list, the process ends with a traceback
         [pc |-> "exit1", got |-> data.kind, behavior |-> "none",
          updatedInput |-> "None"]
    ELSE IF data.decision = "allow"
    THEN [pc |-> "exit0", got |-> "object", behavior |-> "allow",
          updatedInput |-> data.updatedInput]
    ELSE \* response.get("decision", "deny"), then the else branch of line 91
         [pc |-> "exit0", got |-> "object", behavior |-> "deny",
          updatedInput |-> "None"]

Peers == {"daemon", "nobody", "foreign"}

\* the hook starts, connects and sends its request (hook lines 34-50)
HookStart(c, peer) ==
    /\ NoReady
    /\ hook[c].pc = "none"
    /\ \A d \in Conns : d < c => hook[d].pc # "none"
    /\ hook' = [hook EXCEPT ![c] =
                  IF peer = "nobody"
                  THEN hook_main(Data("unreachable", "missing", "None"))
                  ELSE [@ EXCEPT !.pc = IF peer = "daemon" THEN "recv"
                                        ELSE "recv_foreign"]]
    /\ Silent
    /\ UNCHANGED <<chat_id, pending, event, hc, nupd, accepted, nseq, timeout>>

\* whoever else listens on the socket answers, or does not
HookRecvForeign(c, data) ==
    /\ NoReady
    /\ hook[c].pc = "recv_foreign"
    /\ hook' = [hook EXCEPT ![c] = hook_main(data)]
    /\ Silent
    /\ UNCHANGED <<chat_id, pending, event, hc, nupd, accepted, nseq, timeout>>

\* the daemon's timer can fire before the hook's: the hook starts its
\* recv (310 s) before the handler starts wait_for (timeout s)
DaemonFirst(t) == t < RECV_TIMEOUT

\* recv raises socket.timeout while the handler still waits for a decision
HookGiveUp(c) ==
    /\ NoReady
    /\ hook[c].pc = "recv"
    /\ hc[c].pc = "waiting"
    /\ ~DaemonFirst(timeout)
    /\ hook' = [hook EXCEPT ![c] =
                  hook_main(Data("timeout", "missing", "None"))]
    /\ Silent
    /\ UNCHANGED <<chat_id, pending, event, hc, nupd, accepted, nseq, timeout>>

\* the handler has closed the connection: recv returns what was written
HookReceive(c) ==
    /\ NoReady
    /\ hook[c].pc = "recv"
    /\ hc[c].pc = "done"
    /\ hook' = [hook EXCEPT ![c] = hook_main(Encode(hc[c].response))]
    /\ Silent
    /\ UNCHANGED <<chat_id, pending, event, hc, nupd, accepted, nseq, timeout>>

\* the daemon serving hooks: a connection is the one a hook opened, the
\* request is well formed and carries a fresh uuid4 (hook line 34), and the
\* handler's timer fires only when it can be ahead of the hook's
DaemonAccept(c) == hook[c].pc = "recv" /\ Accept(c)

DaemonRead(c, tool, q) == ReadRequest(c, c, tool, q)

DaemonTimeout(c) ==
    /\ DaemonFirst(timeout) \/ hook[c].pc # "recv"
    /\ Timeout(c)

\* timeouts the configuration may hold (stopkran_setup.py line 54 takes
\* any integer)
Timeouts == {DEFAULT_TIMEOUT, 2 * DEFAULT_TIMEOUT}

InitHook ==
    /\ chat_id \in {NoId, 1}
    /\ pending = <<>>
    /\ event = [c \in 1..MaxConn |-> FALSE]
    /\ hc = [c \in 1..MaxConn |-> HandlerInit]
    /\ nupd = 0
    /\ last = NoReport
    /\ accepted = [c \in 1..MaxConn |-> <<>>]
    /\ nseq = 0
    /\ timeout \in Timeouts
    /\ hook = [c \in 1..MaxConn |-> HookInit]

\* a step of the handler of a connection opened by a hook
HookHandlerStep(c) ==
    \/ \E tool \in Tools : \E q \in QuestionsOf(tool) : DaemonRead(c, tool, q)
    \/ PublishOk(c) \/ PublishFail(c)
    \/ DaemonTimeout(c)
    \/ \E ok \in BOOLEAN : FinalizeDone(c, ok)
    \/ Wake(c)

NextHook ==
    \/ \E c \in Conns, peer \in Peers : HookStart(c, peer)
    \/ \E c \in Conns, data \in ForeignData : HookRecvForeign(c, data)
    \/ \E c \in Conns : HookGiveUp(c)
    \/ \E c \in Conns : HookReceive(c)
    \/ \E c \in Conns : DaemonAccept(c)
    \/ \E c \in Conns : HookHandlerStep(c)
    \/ \E u \in Users : cmd_start(u)
    \/ \E u \in Users, data \in CallbackData : callback_handler(u, data)

SpecHook == InitHook /\ [][NextHook]_vars

\* the socket exchange of a hook ends (the handler closes the connection on
\* every path, recv has a timeout), and so does every await of a handler
FairHook ==
    /\ SpecHook
    /\ \A c \in 1..MaxConn : WF_vars(HookHandlerStep(c))
    /\ \A c \in 1..MaxConn : WF_vars(HookReceive(c))

\* ------------------------------------------------------------- properties
\* an update was processed in this step and last' is the reply to it
Replied == nupd' = nupd + 1

\* the reply answers a well-formed resolution attempt of the owner that
\* named or selected an entry present in the registry
AttemptOnEntry ==
    /\ Replied
    /\ last'.kind \in {"button", "ans", "text", "digit"}
    /\ last'.conn # NoConn
    /\ last'.outcome # "invalid"

\* C1: a resolution attempt on an entry whose decision is already allow or
\* deny is reported as already handled, leaves the entry's decision and
\* answer as they are and does not set the entry's event again.
C1_DecidedOnce ==
    [][(AttemptOnEntry /\ last'.before \in {"allow", "deny"})
         => /\ last'.outcome = "already_handled"
            /\ pending' = pending
            /\ ~last'.signalled]_vars

Opposite(a, b) == {a, b} = {"allow", "deny"}

\* C2: when a quick reply has been accepted on an entry and a button press
\* with the opposite action names that entry's request (or the other way
\* round), the later attempt is reported as already handled, the entry's
\* history keeps one accepted attempt, and the response written by the
\* handler of that entry carries the accepted action.
C2_OneAccepted ==
    [][\A c \in Conns :
         (/\ Replied
          /\ Len(accepted[c]) = 1
          /\ last'.kind \in {"button", "text"}
          /\ {last'.kind, accepted[c][1].kind} = {"button", "text"}
          /\ Opposite(last'.action, accepted[c][1].action)
          /\ last'.rid = hc[c].rid
          /\ last'.outcome \in {"accepted", "already_handled"}
          /\ \A d \in Conns : hc[d].rid = hc[c].rid => d = c)
         => /\ last'.outcome = "already_handled"
            /\ accepted'[c] = accepted[c]
            /\ hc[c].pc = "done"
                 => hc[c].response.decision = accepted[c][1].action]_vars

\* C3: after the timeout of a request has fired no attempt on its entry is
\* reported as accepted, and a response written for a request carries the
\* action of every attempt that was reported as accepted on its entry.
C3_RaceIsFinal ==
    [][/\ (Replied /\ last'.outcome = "accepted")
            => hc[last'.conn].pc # "finalizing"
       /\ \A c \in Conns :
            (hc'[c].pc = "done" /\ hc'[c].response # NoResponse)
              => \A i \in 1..Len(accepted'[c]) :
                    accepted'[c][i].action = hc'[c].response.decision]_vars

\* a handler is in flight from accept to close
InFlight(c) == hc[c].pc \notin {"idle", "done"}

\* C4: when no connection handler is in flight the registry is empty.
C4_RegistryEmptyWhenIdle ==
    (\A c \in Conns : ~InFlight(c)) => pending = <<>>

\* C5: a request received while no owner is registered is answered with
\* deny at once; its handler publishes nothing and no entry created by it
\* is ever in the registry.
C5_NoOwnerDenies ==
    \A c \in Conns :
      (hc[c].rid # NoRid /\ hc[c].chat_id = NoId)
        => /\ hc[c].pc = "done"
           /\ hc[c].exit = "no_owner"
           /\ hc[c].response = [decision |-> "deny", answer |-> "None"]
           /\ \A i \in 1..Len(pending) : pending[i].conn # c

\* a request was denied for lack of an owner while another request, received
\* after the owner registered, is pending
C5_Witness ==
    \E c \in Conns :
      /\ hc[c].rid # NoRid /\ hc[c].chat_id = NoId
      /\ hc[c].response.decision = "deny"
      /\ pending # <<>>

\* C6: once the timeout of a published request has fired, the handler
\* eventually closes the connection, and the step that closes it writes a
\* deny response and leaves no entry of that handler in the registry,
\* whether the edit calls succeed or raise.
C6_TimeoutDenies ==
    /\ [][\A c \in Conns :
            (hc[c].pc = "finalizing" /\ hc'[c].pc # "finalizing")
              => /\ hc'[c].pc = "done"
                 /\ hc'[c].response.decision = "deny"
                 /\ \A i \in 1..Len(pending') : pending'[i].conn # c]_vars
    /\ \A c \in 1..MaxConn :
         (hc[c].pc = "finalizing") ~> (hc[c].pc = "done")

\* a request nobody resolved timed out, the edit calls raised, deny was sent
C6_Witness ==
    \E c \in Conns :
      /\ hc[c].exit = "timed_out" /\ hc[c].fin = "failed"
      /\ accepted[c] = <<>>
      /\ hc[c].response.decision = "deny"
      /\ ~Has(pending, hc[c].rid)

\* C7: a request whose request_id is in the registry does not replace the
\* entry stored under that id: while the id stays in the registry its entry
\* is the one created by the same connection.
C7_DuplicateRejected ==
    [][\A i \in 1..Len(pending) :
         Has(pending', pending[i].rid)
           => Get(pending', pending[i].rid).conn = pending[i].conn]_vars

\* C8 as stated: a handler whose publish call failed writes an error
\* response before it closes the connection.
C8_PublishFailureAnswered ==
    \A c \in Conns :
      hc[c].exit = "publish_failed" => hc[c].response # NoResponse

\* C8 as amended: a handler whose publish call failed closes the connection
\* without writing any response.
C8_PublishFailureCloses ==
    \A c \in Conns :
      hc[c].exit = "publish_failed"
        => hc[c].pc = "done" /\ hc[c].response = NoResponse

\* a publish call failed for a request received with an owner registered
C8_Witness ==
    \E c \in Conns :
      /\ hc[c].exit = "publish_failed"
      /\ hc[c].chat_id # NoId
      /\ hc[c].pc = "done"

\* C9: an accepted affirmative or negative quick reply resolves the entry
\* that was created earliest among the undecided ones and changes no other
\* entry.
C9_OldestFirst ==
    [][(Replied /\ last'.kind = "text" /\ last'.outcome = "accepted")
         => /\ Get(pending, last'.rid).decision = "None"
            /\ \A i \in 1..Len(pending) :
                 /\ pending[i].decision = "None"
                      => Get(pending, last'.rid).seq <= pending[i].seq
                 /\ pending[i].rid # last'.rid => pending'[i] = pending[i]]_vars

\* C10: an option button with an index inside the first question's options,
\* pressed by the owner on an undecided entry with questions, makes the
\* entry allow with the label of that option as answer, and the response
\* written for an entry whose only accepted attempt was that button is
\* allow with that answer.
C10_OptionSelected ==
    [][/\ (/\ Replied
           /\ last'.kind = "ans"
           /\ last'.user = chat_id
           /\ Has(pending, last'.rid)
           /\ Get(pending, last'.rid).decision = "None"
           /\ Get(pending, last'.rid).questions # NoQuestions
           /\ 0 <= last'.idx
           /\ last'.idx < Get(pending, last'.rid).questions)
            => /\ last'.outcome = "accepted"
               /\ Get(pending', last'.rid).decision = "allow"
               /\ Get(pending', last'.rid).answer = Labels[last'.idx + 1]
       /\ \A c \in Conns :
            (/\ hc'[c].pc = "done"
             /\ hc'[c].response # NoResponse
             /\ Len(accepted'[c]) = 1
             /\ accepted'[c][1].kind = "ans")
              => hc'[c].response = [decision |-> "allow",
                                    answer |-> accepted'[c][1].answer]]_vars

\* the first undecided entry in iteration order, the one a quick reply
\* selects
OldestUndecided(p) == Get(p, get_oldest_pending_request_id(p))

\* C11: an option index outside the options of the first question, sent by
\* the owner as an option button on an entry with questions or as a digit
\* reply while the oldest undecided entry has questions, is not accepted and
\* leaves the registry and every event as they were.
C11_OutOfRangeRejected ==
    [][(/\ Replied
        /\ last'.kind \in {"ans", "digit"}
        /\ last'.user = chat_id
        /\ LET rid == IF last'.kind = "ans" THEN last'.rid
                      ELSE get_oldest_pending_request_id(pending)
           IN /\ Has(pending, rid)
              /\ Get(pending, rid).questions # NoQuestions
              /\ \/ last'.idx < 0
                 \/ last'.idx >= Get(pending, rid).questions)
         => /\ last'.outcome \in {"invalid", "ignored"}
            /\ pending' = pending
            /\ event' = event]_vars

\* the owner sent the digit one past the last option while the oldest
\* undecided entry has questions; the entry is still undecided
C11_Witness ==
    /\ last.kind = "digit" /\ last.user = chat_id
    /\ last.idx = MaxOpts
    /\ get_oldest_pending_request_id(pending) # NoRid
    /\ OldestUndecided(pending).questions = MaxOpts
    /\ OldestUndecided(pending).answer = "None"

\* C12: a button press, option selection or quick reply whose sender is not
\* the registered owner, also while no owner is registered, leaves the
\* registry and every event as they were.
C12_OnlyOwnerResolves ==
    [][(/\ Replied
        /\ last'.kind \in {"button", "ans", "text", "digit"}
        /\ last'.user # chat_id)
         => /\ last'.outcome \in {"unauthorized", "ignored"}
            /\ pending' = pending
            /\ event' = event]_vars

\* somebody else pressed a button while an undecided entry waits
C12_Witness ==
    /\ last.outcome = "unauthorized"
    /\ chat_id # NoId /\ last.user # chat_id
    /\ get_oldest_pending_request_id(pending) # NoRid
    /\ \E c \in Conns : hc[c].pc = "waiting"

\* C13: /start sets the owner when none is registered, and a registered
\* owner never changes.
C13_OwnerWriteOnce ==
    [][/\ (Replied /\ last'.kind = "start" /\ chat_id = NoId)
            => chat_id' = last'.user
       /\ chat_id # NoId => chat_id' = chat_id]_vars

\* user 2 registered first, then user 1 sent /start and was turned away
C13_Witness ==
    /\ chat_id = 2
    /\ last.kind = "start" /\ last.user = 1
    /\ last.outcome = "other_owner"

\* C14: an entry leaves the registry only in the step in which the handler
\* of the connection that created it, having been woken or timed out,
\* closes that connection; no update and no other handler removes or
\* replaces it.
C14_OwnerRemoves ==
    [][\A i \in 1..Len(pending) :
         (\A j \in 1..Len(pending') : pending'[j].seq # pending[i].seq)
           => /\ hc[pending[i].conn].pc \in {"waiting", "finalizing"}
              /\ hc'[pending[i].conn].pc = "done"
              /\ hc'[pending[i].conn].exit \in {"resolved", "timed_out"}]_vars

\* C15: a connection whose request does not arrive within the read timeout,
\* does not parse or has no request_id is closed in that step with no
\* response written; the step creates no entry and leaves the registry,
\* every event and every other handler as they were.
C15_BadRequestIsolated ==
    [][\A c \in Conns :
         (hc[c].pc = "reading" /\ hc'[c].exit = "no_request")
           => /\ hc'[c].pc = "done"
              /\ hc'[c].response = NoResponse
              /\ pending' = pending
              /\ event' = event
              /\ \A d \in Conns \ {c} : hc'[d] = hc[d]]_vars

\* a connection was dropped for its bad request while the request of
\* another connection waits for a decision
C15_Witness ==
    \E c \in Conns, d \in Conns :
      /\ d < c
      /\ hc[c].exit = "no_request"
      /\ hc[d].pc = "waiting"
      /\ Has(pending, hc[d].rid)
      /\ Get(pending, hc[d].rid).conn = d

\* C16: a response is written to a connection at most once, in the step
\* that closes it; an accepted connection never becomes unaccepted and a
\* closed one stays closed; and from some point on every connection is
\* either not accepted yet or closed, so every accepted connection is
\* eventually closed.
C16_AlwaysClosed ==
    /\ [][\A c \in Conns :
            hc'[c].response # hc[c].response
              => /\ hc[c].response = NoResponse
                 /\ hc[c].pc # "done"
                 /\ hc'[c].pc = "done"]_vars
    /\ [][\A c \in Conns :
            /\ hc[c].pc # "idle" => hc'[c].pc # "idle"
            /\ hc[c].pc = "done" => hc'[c].pc = "done"]_vars
    /\ <>[](\A c \in 1..MaxConn : hc[c].pc \in {"idle", "done"})

\* every way a handler ends has been taken by some connection that is now
\* closed: here a publish failure and a timeout
C16_Witness ==
    \E c \in Conns, d \in Conns :
      /\ hc[c].pc = "done" /\ hc[c].exit = "publish_failed"
      /\ hc[d].pc = "done" /\ hc[d].exit = "timed_out"
      /\ hc[d].response.decision = "deny"

\* number of entries of the registry whose decision is None
Undecided(p) == Cardinality({i \in 1..Len(p) : p[i].decision = "None"})

\* C17: /status sent by the owner reports the number of entries whose
\* decision is None; an entry that is decided and not yet removed is not
\* counted.
C17_StatusCountsUndecided ==
    [][(Replied /\ last'.kind = "status" /\ last'.user = chat_id)
         => /\ last'.outcome = "count"
            /\ last'.n = Undecided(pending)]_vars

\* the owner's button press with action x is the one accepted attempt on
\* the entry of connection c, whose handler waits on its event
ButtonOnly(c, x) ==
    /\ hc[c].pc = "waiting"
    /\ event[c]
    /\ accepted[c] = <<[kind |-> "button", action |-> x, answer |-> "None"]>>

\* the outcome for the requester behind connection c is x
Delivered(c, x) ==
    /\ hc[c].pc = "done"
    /\ hc[c].response.decision = x
    /\ ~Has(pending, hc[c].rid)
    /\ hook[c].behavior = x

\* C18: when the owner's allow or deny button press is the only resolution
\* of a published request and arrives while the handler still waits, then
\* eventually the response carries that action, the connection is closed,
\* the entry is gone and the hook has printed that behaviour.
C18_EndToEnd ==
    \A c \in 1..MaxConn : \A x \in {"allow", "deny"} :
      ButtonOnly(c, x) ~> Delivered(c, x)

\* C19: a hook that could not connect, whose peer closed the connection
\* without data, whose recv timed out, or that received something that is
\* no JSON object has terminated without printing a decision.
C19_HookDegrades ==
    \A c \in Conns :
      hook[c].got \in {"unreachable", "empty", "timeout", "garbage",
                       "not_utf8", "nonobject"}
        => /\ hook[c].pc \in {"exit0", "exit1"}
           /\ hook[c].behavior = "none"
           /\ hook[c].updatedInput = "None"

\* one hook gave up on recv while its request waited for a decision,
\* another one read no data after the publish call of its handler failed
C19_Witness ==
    \E c \in Conns, d \in Conns :
      /\ hook[c].got = "timeout" /\ hook[c].pc = "exit0"
      /\ hook[d].got = "empty" /\ hook[d].pc = "exit0"
      /\ hc[d].exit = "publish_failed"

\* position of the undecided entry that was created first, 0 if none
OldestCreated(p) ==
    IF \E i \in 1..Len(p) : p[i].decision = "None"
    THEN CHOOSE i \in 1..Len(p) :
           /\ p[i].decision = "None"
           /\ \A j \in 1..Len(p) :
                p[j].decision = "None" => p[i].seq <= p[j].seq
    ELSE 0

\* C20: a digit k sent by the owner makes the undecided entry created first
\* allow with the label of option k-1 as answer and sets its event, when
\* that entry has questions with at least k options and k >= 1; in every
\* other case the registry and the events stay as they were.
C20_DigitReply ==
    [][(Replied /\ last'.kind = "digit" /\ last'.user = chat_id)
         => LET i == OldestCreated(pending)
                k == last'.idx + 1
            IN  IF /\ i # 0
                   /\ pending[i].questions # NoQuestions
                   /\ 1 <= k
                   /\ k <= pending[i].questions
                THEN /\ pending' = [pending EXCEPT ![i].decision = "allow",
                                                   ![i].answer = Labels[k]]
                     /\ event' = [event EXCEPT ![pending[i].conn] = TRUE]
                     /\ last'.outcome = "accepted"
                ELSE /\ pending' = pending
                     /\ event' = event
                     /\ last'.outcome # "accepted"]_vars

\* C21: whenever the daemon has timed a request out, the configured
\* timeout is below the hook's receive timeout, which is below the hook
\* timeout registered with the host, and the hook has not given up on
\* recv: when it has ended, it has printed the deny it received.
C21_DenyBeforeGiveUp ==
    \A c \in Conns :
      hc[c].exit = "timed_out"
        => /\ timeout < RECV_TIMEOUT
           /\ RECV_TIMEOUT * 1000 < hook_timeout
           /\ hook[c].got # "timeout"
           /\ hook[c].pc # "recv" => hook[c].behavior = "deny"

\* C22: a response with decision allow is written only for a request whose
\* request_id was the target of an allow attempt (allow button, option
\* button, affirmative or digit quick reply) that was accepted from the
\* owner; a timeout, a missing owner and an error never give allow.
C22_AllowOnlyByOwner ==
    \A c \in Conns :
      hc[c].response.decision = "allow"
        => /\ hc[c].exit = "resolved"
           /\ hc[c].chat_id # NoId
           /\ \E d \in Conns :
                /\ hc[d].rid = hc[c].rid
                /\ \E i \in 1..Len(accepted[d]) :
                     accepted[d][i].action = "allow"

\* a request was answered allow on the owner's digit reply while another
\* one, which nobody answered, timed out with deny
C22_Witness ==
    \E c \in Conns, d \in Conns :
      /\ hc[c].response.decision = "allow"
      /\ Len(accepted[c]) = 1 /\ accepted[c][1].kind = "digit"
      /\ hc[d].exit = "timed_out" /\ accepted[d] = <<>>
      /\ hc[d].response.decision = "deny"

\* C23: no response written to a requester has decision deny together with
\* an answer.
C23_AnswerOnlyWithAllow ==
    \A c \in Conns :
      hc[c].response.decision = "deny" => hc[c].response.answer = "None"

\* C24: an attempt is accepted only on an entry whose prompt has been
\* published, that is whose tg_message_id is set.
C24_ResolvedAfterPublish ==
    [][(Replied /\ last'.outcome = "accepted")
         => Get(pending, last'.rid).tg_message_id # 0]_vars

====
